---- MODULE Spec2Model ----
(***************************************************************************)
(* State-machine model of HDXer/reweighting.py (class MaxEnt).             *)
(*                                                                         *)
(* The state is one MaxEnt object (methodparams, runparams, runvalues,     *)
(* mcsamplvalues), the module-level globals that setup_restart assigns,    *)
(* the output files, and a record of the last call and how it ended.       *)
(* There is one action per public method.  The caller handles no           *)
(* exception: the first call that raises is the last call it makes.        *)
(*                                                                         *)
(* Numbers.  A float is a pair <<n, d>>: the exact rational n/d in lowest  *)
(* terms when d > 0, and the IEEE specials when d = 0 (<<0,0>> NaN,        *)
(* <<1,0>> +inf, <<-1,0>> -inf).  Rounding of finite results is not        *)
(* modelled; overflow, underflow, division by zero and NaN propagation     *)
(* are.  np.exp is evaluated on the integer grid: 2^floor(x), +inf above   *)
(* ExpMax and 0 below -ExpMax (see FExp).                                  *)
(***************************************************************************)
EXTENDS Integers, Sequences, FiniteSets, TLC

\* ------------------------------------------------------------------ bounds
\* np.exp overflows to +inf above ExpMax and underflows to 0 below -ExpMax.
ExpMax == 2
\* Uniform draws of np.random.random_sample() are k/UGrid, k in 0..UGrid-1.
UGrid == 3
\* Random initial weights (RandomState.rand) are k/WGrid, k in 0..WGrid-1.
WGrid == 2
\* The engine's lambda step reaches integer lambdas in -MaxLambda..MaxLambda.
MaxLambda == 1
\* Engine iterations followed.
MaxIter == 1
\* Values of param_maxiters followed through the statements after the loop.
MaxSteps == 3
\* Mean coefficients of the inner steps of a call are k/4, k in 0..MaxMean.
MaxMean == 3

\* ------------------------------------------------------- float arithmetic
Abs(a) == IF a < 0 THEN -a ELSE a

Sgn(a) == IF a < 0 THEN -1 ELSE IF a > 0 THEN 1 ELSE 0

RECURSIVE GCD(_, _)
GCD(a, b) == IF b = 0 THEN a ELSE GCD(b, a % b)

\* The finite float n/d (d # 0), in lowest terms with a positive denominator.
Q(n, d) == LET g == GCD(Abs(n), Abs(d))
               s == IF d < 0 THEN -1 ELSE 1
           IN  <<(s * n) \div g, (s * d) \div g>>

I(n) == <<n, 1>>

NaN == <<0, 0>>

PInf == <<1, 0>>

NInf == <<-1, 0>>

IsNaN(x) == x = NaN

IsFinite(x) == x[2] > 0

IsInf(x) == x[2] = 0 /\ x[1] # 0

FNeg(x) == <<-x[1], x[2]>>

FAdd(x, y) ==
    IF IsNaN(x) \/ IsNaN(y) THEN NaN
    ELSE IF IsInf(x) /\ IsInf(y) THEN (IF x = y THEN x ELSE NaN)
    ELSE IF IsInf(x) THEN x
    ELSE IF IsInf(y) THEN y
    ELSE Q(x[1] * y[2] + y[1] * x[2], x[2] * y[2])

FSub(x, y) == FAdd(x, FNeg(y))

FMul(x, y) ==
    IF IsNaN(x) \/ IsNaN(y) THEN NaN
    ELSE IF IsInf(x) \/ IsInf(y)
         THEN (IF x[1] = 0 \/ y[1] = 0 THEN NaN ELSE <<Sgn(x[1]) * Sgn(y[1]), 0>>)
    ELSE Q(x[1] * y[1], x[2] * y[2])

\* numpy true division: x/0 is +-inf (NaN for 0/0), finite/inf is 0.
FDiv(x, y) ==
    IF IsNaN(x) \/ IsNaN(y) THEN NaN
    ELSE IF IsInf(y) THEN (IF IsInf(x) THEN NaN ELSE I(0))
    ELSE IF y[1] = 0 THEN (IF x[1] = 0 THEN NaN ELSE <<Sgn(x[1]), 0>>)
    ELSE IF IsInf(x) THEN <<Sgn(x[1]) * Sgn(y[1]), 0>>
    ELSE Q(x[1] * y[2], x[2] * y[1])

\* x < y; every comparison with NaN is False.
FLt(x, y) ==
    IF IsNaN(x) \/ IsNaN(y) THEN FALSE
    ELSE IF IsInf(x) \/ IsInf(y)
         THEN (IF IsInf(x) /\ IsInf(y) THEN x[1] < y[1]
               ELSE IF IsInf(x) THEN x[1] < 0
               ELSE y[1] > 0)
    ELSE x[1] * y[2] < y[1] * x[2]

FGe(x, y) == ~IsNaN(x) /\ ~IsNaN(y) /\ ~FLt(x, y)

RECURSIVE Pow2(_)
Pow2(k) == IF k = 0 THEN 1 ELSE 2 * Pow2(k - 1)

\* floor(n/d) for d > 0 (\div rounds toward minus infinity).
Floor(x) == x[1] \div x[2]

\* np.exp on the integer grid.
FExp(x) ==
    IF IsNaN(x) THEN NaN
    ELSE IF x = PInf THEN PInf
    ELSE IF x = NInf THEN I(0)
    ELSE LET k == Floor(x)
         IN  IF k > ExpMax THEN PInf
             ELSE IF k < -ExpMax THEN I(0)
             ELSE IF k >= 0 THEN <<Pow2(k), 1>>
             ELSE <<1, Pow2(-k)>>

\* The integer square root of n >= 0.
RECURSIVE ISqrt(_)
ISqrt(n) ==
    IF n < 2 THEN n
    ELSE LET s == 2 * ISqrt(n \div 4)
         IN  IF (s + 1) * (s + 1) > n THEN s ELSE s + 1

\* np.sqrt: NaN below zero, otherwise sqrt(n/d) = isqrt(n*d)/d on the grid.
FSqrt(x) ==
    IF IsNaN(x) \/ x = NInf \/ (IsFinite(x) /\ x[1] < 0) THEN NaN
    ELSE IF x = PInf THEN PInf
    ELSE Q(ISqrt(x[1] * x[2]), x[2])

\* The sequence with the entries of f, each evaluated once.
Tup(f) == <<>> \o f

\* np.sum of the entries f[1..n].
RECURSIVE FSumTo(_, _)
FSumTo(f, n) == IF n = 0 THEN I(0) ELSE FAdd(FSumTo(f, n - 1), f[n])

FSum(f) == FSumTo(f, Len(f))

\* np.sum over every cell of a [segment][residue][time] grid.
GridSum(g) ==
    FSum(Tup([s \in 1..Len(g) |->
            FSum(Tup([r \in 1..Len(g[s]) |-> FSum(g[s][r])]))]))

\* Elementwise product of two grids of the same shape.
GridMul(g, h) ==
    Tup([s \in 1..Len(g) |-> Tup([r \in 1..Len(g[s]) |-> Tup([t \in 1..Len(g[s][r]) |->
        FMul(g[s][r][t], h[s][r][t])])])])

\* ------------------------------------------------- parameters and inputs
\* Defaults of MaxEnt.__init__ (the entries the modelled methods read).
mc_refvar == <<3, 100>>

default_radou_bc == <<7, 20>>

default_radou_bh == <<2, 1>>

radou_bcrange == <<3, 2>>

radou_bhrange == <<16, 1>>

param_stepfactor == <<1, 10>>

default_mc_equilsteps == -1

default_param_maxiters == 100

Defaults ==
    [do_reweight |-> TRUE, do_mcsampl |-> FALSE, random_initial |-> FALSE,
     radou_bc |-> default_radou_bc, radou_bh |-> default_radou_bh,
     mc_equilsteps |-> default_mc_equilsteps,
     param_maxiters |-> default_param_maxiters]

\* The extra_params callers construct the object with: none; MC sampling
\* with and without reweighting; random initial weights; a radou_bc below
\* zero from which a draw can come back to >= 0, and a radou_bh below zero
\* from which no draw can.
ExtraParams ==
    { Defaults,
      [Defaults EXCEPT !.do_mcsampl = TRUE],
      [Defaults EXCEPT !.do_mcsampl = TRUE, !.do_reweight = FALSE],
      [Defaults EXCEPT !.random_initial = TRUE],
      [Defaults EXCEPT !.do_mcsampl = TRUE, !.radou_bc = <<-1, 40>>],
      [Defaults EXCEPT !.do_mcsampl = TRUE, !.radou_bh = <<-1, 1>>] }

\* The arguments run() requires on the fresh-setup path.
Mandatory == {"data_folders", "kint_file", "exp_file", "times"}

\* What the external readers (read_contacts_hbonds, read_kints_segments)
\* return for the inputs a caller names: contacts and hbonds [residue][frame],
\* kt, exp_dfrac and segfilters [segment][residue][time].
\* "example" is the two-residue, two-frame example; "emptyseg" has a segment
\* no residue belongs to; "zerolnpi" has a residue without contacts or
\* H-bonds inside a segment.
Datasets ==
    { [name |-> "example",
       contacts |-> <<<<0, 0>>, <<0, 1>>>>,
       hbonds |-> <<<<0, 1>>, <<1, 0>>>>,
       kt |-> <<<<<<2>>, <<2>>>>, <<<<2>>, <<2>>>>>>,
       exp_dfrac |-> <<<<<<<<1, 2>>>>, <<<<1, 2>>>>>>, <<<<<<3, 4>>>>, <<<<3, 4>>>>>>>>,
       segfilters |-> <<<<<<1>>, <<1>>>>, <<<<0>>, <<1>>>>>>,
       times |-> <<1>>],
      [name |-> "emptyseg",
       contacts |-> <<<<2, 0>>, <<1, 3>>>>,
       hbonds |-> <<<<1, 0>>, <<0, 1>>>>,
       kt |-> <<<<<<1>>, <<1>>>>, <<<<3>>, <<3>>>>>>,
       exp_dfrac |-> <<<<<<<<1, 4>>>>, <<<<1, 4>>>>>>, <<<<<<1, 2>>>>, <<<<1, 2>>>>>>>>,
       segfilters |-> <<<<<<1>>, <<1>>>>, <<<<0>>, <<0>>>>>>,
       times |-> <<1>>],
      [name |-> "zerolnpi",
       contacts |-> <<<<0, 0>>, <<2, 1>>>>,
       hbonds |-> <<<<0, 0>>, <<1, 2>>>>,
       kt |-> <<<<<<2>>, <<2>>>>, <<<<1>>, <<1>>>>>>,
       exp_dfrac |-> <<<<<<<<1, 2>>>>, <<<<1, 2>>>>>>, <<<<<<1, 4>>>>, <<<<1, 4>>>>>>>>,
       segfilters |-> <<<<<<1>>, <<1>>>>, <<<<0>>, <<1>>>>>>,
       times |-> <<1>>] }

\* The 28 names setup_restart unpacks the checkpoint into, in order.
RestartFields ==
    << "contacts", "hbonds", "kint", "exp_dfrac", "segfilters", "lambdas",
       "lambdasc", "lambdash", "_lambdanewaverh", "_lambdanewaverc",
       "_lambdanew", "_lambdanewh", "_lambdanewc", "chisquareav",
       "nframes", "iniweights", "num", "exp_df_segf", "normseg", "numseg",
       "lambdamod", "deltalambdamod", "Bc", "Bh", "gamma", "ratef",
       "avesigmalnpi", "currcount" >>

\* The value the saving side stored for a field (the static arrays are
\* left empty; the mutable state has recognisable values).
SavedVal(name) ==
    CASE name \in {"lambdas", "_lambdanew"} -> <<I(1), I(-1)>>
      [] name \in {"lambdasc", "_lambdanewc", "_lambdanewaverc"} -> <<I(2), I(0)>>
      [] name \in {"lambdash", "_lambdanewh", "_lambdanewaverh"} -> <<I(0), I(-2)>>
      [] name = "iniweights" -> <<I(1), I(1)>>
      [] name = "Bc" -> <<1, 2>>
      [] name = "Bh" -> <<3, 1>>
      [] name = "ratef" -> <<1, 1000>>
      [] name = "currcount" -> <<7, 1>>
      [] OTHER -> <<>>

Pickled(name) == [field |-> name, val |-> SavedVal(name)]

\* Checkpoints a caller can hand to run(restart=...): one written with the
\* 28 fields in order, one lacking the last field, and one with 28 fields
\* in which Bc and Bh changed places.
RestartKinds == {"valid", "short", "reordered"}

ValidCheckpoint == Tup([i \in 1..Len(RestartFields) |-> Pickled(RestartFields[i])])

Checkpoint(kind) ==
    CASE kind = "valid" -> ValidCheckpoint
      [] kind = "short" -> SubSeq(ValidCheckpoint, 1, Len(RestartFields) - 1)
      [] kind = "reordered" ->
            Tup([i \in 1..Len(RestartFields) |->
                IF RestartFields[i] = "Bc" THEN Pickled("Bh")
                ELSE IF RestartFields[i] = "Bh" THEN Pickled("Bc")
                ELSE Pickled(RestartFields[i])])

\* ------------------------------------------------------------------ state
VARIABLES
    methodparams,   \* self.methodparams (the entries that vary)
    runparams,      \* self.runparams
    runvalues,      \* self.runvalues
    mcsamplvalues,  \* self.mcsamplvalues
    globals,        \* module globals assigned by setup_restart
    files,          \* output files: name -> sections written
    phase,          \* engine state run() is in
    last            \* the last call: arguments, setup entered, how it ended

vars == <<methodparams, runparams, runvalues, mcsamplvalues, globals, files, phase, last>>

FieldSet == {RestartFields[i] : i \in 1..Len(RestartFields)}

Unbound == [field |-> "", val |-> <<>>]

OutFiles == {"initial_params.dat", "work.dat", "per_iteration_output.dat",
             "per_restart_output.dat", "initial_weights_RandomState.dat"}

\* An attribute that has not been assigned yet.
NoRunparams == [def |-> FALSE, keys |-> {}, gamma |-> <<>>, data |-> "", times |-> <<>>]

NoRunvalues ==
    [def |-> FALSE, keys |-> {},
     contacts |-> <<>>, hbonds |-> <<>>, minuskt |-> <<>>, exp_dfrac |-> <<>>,
     segfilters |-> <<>>, lambdas |-> <<>>, nframes |-> 0, iniweights |-> <<>>,
     minuskt_filtered |-> <<>>, exp_dfrac_filtered |-> <<>>,
     n_datapoints |-> <<>>, n_segs |-> 0, lambdamod |-> <<>>,
     deltalambdamod |-> <<>>, curriter |-> 0,
     lnpi |-> <<>>, currweights |-> <<>>, ave_lnpi |-> <<>>, ave_lnpi_ndim |-> 0,
     sigma_lnpi |-> <<>>, ave_sigma_lnpi |-> <<>>,
     curr_residue_dfracs |-> <<>>, curr_segment_dfracs |-> <<>>, curr_MSE |-> <<>>]

NoMcsamplvalues ==
    [def |-> FALSE, lambdas_c |-> <<>>, lambdas_h |-> <<>>,
     final_MClambdas |-> <<>>, final_MClambdas_h |-> <<>>, final_MClambdas_c |-> <<>>,
     ave_MClambdas_h |-> <<>>, ave_MClambdas_c |-> <<>>,
     MC_MSE_ave |-> <<>>, MC_resfracs_ave |-> <<>>]

\* The local values of a sample_parameters_MC call (none for other calls):
\* curr_bc, curr_bh, prev_MSE and prev are curr_radou_bc, curr_radou_bh and
\* the entries of self.runvalues before the acceptance test, new_bc and
\* new_bh are curr_radou_bc and curr_radou_bh after it.
NoMC ==
    [steps |-> 0, u_c |-> <<>>, u_h |-> <<>>, curr_bc |-> <<>>, curr_bh |-> <<>>,
     trial_bc |-> <<>>, trial_bh |-> <<>>, prev_MSE |-> <<>>, trial_MSE |-> <<>>,
     tested |-> FALSE, r |-> <<>>, move_prob |-> <<>>, accepted |-> FALSE,
     new_bc |-> <<>>, new_bh |-> <<>>, prev |-> <<>>, trial |-> <<>>,
     sums |-> <<>>]

NoCall ==
    [op |-> "__init__", restart |-> "None", runobj |-> "None", given |-> {},
     setup |-> {}, raised |-> "none", mc |-> NoMC]

\* MaxEnt(**extra_params): the defaults updated with what the caller passes.
Init ==
    /\ methodparams \in ExtraParams
    /\ runparams = NoRunparams
    /\ runvalues = NoRunvalues
    /\ mcsamplvalues = NoMcsamplvalues
    /\ globals = [n \in FieldSet |-> Unbound]
    /\ files = [f \in OutFiles |-> <<>>]
    /\ phase = "Idle"
    /\ last = NoCall

\* ------------------------------------------------------------------ run()
gamma_default == <<1, 100>>

\* set_run_params: self.runparams is replaced; the caller's options and the
\* three default prefixes are stored only when neither a restart file nor a
\* run object is given.
set_run_params(gamma, runobj, restart, paramdict) ==
    IF restart # "None"
    THEN [NoRunparams EXCEPT !.def = TRUE, !.gamma = gamma,
                             !.keys = {"gamma", "from_restart"}]
    ELSE IF runobj # "None"
    THEN [NoRunparams EXCEPT !.def = TRUE, !.gamma = gamma,
                             !.keys = {"gamma", "from_calchdx"}]
    ELSE [def |-> TRUE, gamma |-> gamma,
          keys |-> {"gamma"} \cup paramdict.given
                   \cup {"hbonds_prefix", "contacts_prefix", "out_prefix"},
          data |-> IF paramdict.given = {} THEN "" ELSE paramdict.data.name,
          times |-> IF "times" \in paramdict.given THEN paramdict.data.times ELSE <<>>]

\* A run() that looks up only the first of the four arguments.
MissingKeys_m(rp) == {"data_folders"} \ rp.keys

\* The lookups self.runparams['data_folders'], ['kint_file'], ['exp_file'],
\* ['times'] made while the arguments of setup_no_runobj are evaluated: the
\* keys among them that raise KeyError.
MissingKeys(rp) == Mandatory \ rp.keys

\* np.ones(nframes), or RandomState.rand(nframes) for the draws iw.
InitialWeights(mp, d, iw) ==
    Tup([f \in 1..Len(d.contacts[1]) |->
        IF mp.random_initial THEN Q(iw[f], WGrid) ELSE I(1)])

\* setup_no_runobj: self.runvalues after the final update.
SetupRunvalues(mp, d, iw) ==
    LET sf == Tup([s \in 1..Len(d.segfilters) |-> Tup([r \in 1..Len(d.segfilters[s]) |->
                 Tup([t \in 1..Len(d.segfilters[s][r]) |-> I(d.segfilters[s][r][t])])])])
        kt == Tup([s \in 1..Len(d.kt) |-> Tup([r \in 1..Len(d.kt[s]) |->
                 Tup([t \in 1..Len(d.kt[s][r]) |-> I(d.kt[s][r][t])])])])
        mkt == Tup([s \in 1..Len(kt) |-> Tup([r \in 1..Len(kt[s]) |->
                 Tup([t \in 1..Len(kt[s][r]) |-> FNeg(kt[s][r][t])])])])
    IN  [NoRunvalues EXCEPT
            !.def = TRUE,
            !.keys = {"contacts", "hbonds", "kint", "exp_dfrac", "segfilters",
                      "lambdas", "nframes", "iniweights", "minuskt_filtered",
                      "exp_dfrac_filtered", "n_datapoints", "n_segs", "lambdamod",
                      "deltalambdamod", "curriter", "minuskt"},
            !.contacts = d.contacts,
            !.hbonds = d.hbonds,
            !.minuskt = kt,
            !.exp_dfrac = d.exp_dfrac,
            !.segfilters = sf,
            !.lambdas = Tup([r \in 1..Len(d.hbonds) |-> I(0)]),
            !.nframes = Len(d.contacts[1]),
            !.iniweights = InitialWeights(mp, d, iw),
            !.minuskt_filtered = GridMul(mkt, sf),
            !.exp_dfrac_filtered = GridMul(d.exp_dfrac, sf),
            !.n_datapoints = GridSum(sf),
            !.n_segs = Len(d.segfilters),
            !.lambdamod = I(0),
            !.deltalambdamod = I(0),
            !.curriter = 0]

\* setup_no_runobj: self.mcsamplvalues is (re)created only in MC-sampling mode.
SetupMcsamplvalues(mp, d, old) ==
    LET zeros == Tup([r \in 1..Len(d.hbonds) |-> I(0)])
    IN  IF mp.do_mcsampl
        THEN [def |-> TRUE, lambdas_c |-> zeros, lambdas_h |-> zeros,
              final_MClambdas |-> zeros, final_MClambdas_h |-> zeros,
              final_MClambdas_c |-> zeros, ave_MClambdas_h |-> zeros,
              ave_MClambdas_c |-> zeros, MC_MSE_ave |-> I(0), MC_resfracs_ave |-> I(0)]
        ELSE old

\* setup_no_runobj: the files opened with 'w' (and the weights dump).
SetupFiles(mp, fl, statenum) ==
    [f \in OutFiles |->
        IF f = "initial_params.dat"
        THEN (IF mp.random_initial THEN <<"header", "values", <<"seed", statenum>>>>
              ELSE <<"header", "values">>)
        ELSE IF f = "initial_weights_RandomState.dat"
        THEN (IF mp.random_initial THEN <<"weights">> ELSE fl[f])
        ELSE <<"header">>]

FieldIndex(name) == CHOOSE i \in 1..Len(RestartFields) : RestartFields[i] = name

\* setup_restart: the unpacking assignment to the module globals, then the
\* appends to the output files.  Returns the globals, the files and the
\* exception raised ("none" if it returns).
setup_restart(rp, ckpt, g, fl) ==
    IF Len(ckpt) # Len(RestartFields)
    THEN [globals |-> g, files |-> fl, raised |-> "ValueError"]
    ELSE LET g2 == [n \in FieldSet |-> ckpt[FieldIndex(n)]]
         IN  IF "out_prefix" \notin rp.keys
             THEN [globals |-> g2, files |-> fl, raised |-> "KeyError"]
             ELSE [globals |-> g2,
                   files |-> [fl EXCEPT !["initial_params.dat"] =
                                 @ \o <<"restarted", "header">>],
                   raised |-> "NameError"]

\* What callers pass as **run_params: nothing, all four mandatory names,
\* or all but one of them.
GivenChoices == {{}, Mandatory} \cup {Mandatory \ {k} : k \in Mandatory}

\* The seeds np.random.randint(2**32) returns after np.random.seed(None)
\* (one where none is drawn): as many as there are weight vectors.
Statenums(mp, d) ==
    IF mp.random_initial THEN 0..((WGrid ^ Len(d.contacts[1])) - 1) ELSE {0}

\* RandomState(statenum).rand(nframes), as numerators over WGrid: the
\* generator is a function of its seed.
Rand(statenum, nframes) ==
    Tup([f \in 1..nframes |-> (statenum \div (WGrid ^ (f - 1))) % WGrid])

\* A run() that tests runobj before restart.
SetupChoice_m(restart, runobj) ==
    IF runobj = "None"
    THEN IF restart = "None" THEN "setup_no_runobj" ELSE "setup_restart"
    ELSE "setup_runobj"

\* The setup routine run() turns to: "Restart > Runobj > Normal".
SetupChoice(restart, runobj) ==
    IF restart = "None"
    THEN IF runobj = "None" THEN "setup_no_runobj" ELSE "setup_runobj"
    ELSE "setup_restart"

\* run(gamma, runobj, restart, **run_params).  After the setup routine
\* returns, run() returns: it has no iteration loop.
Run ==
    \E restart \in {"None"} \cup RestartKinds, runobj \in {"None", "calc_hdx"},
       given \in GivenChoices, d \in Datasets :
      LET rp == set_run_params(gamma_default, runobj, restart,
                               [given |-> given, data |-> d])
          call == [NoCall EXCEPT !.op = "run", !.restart = restart,
                                 !.runobj = runobj, !.given = given]
          setup == SetupChoice(restart, runobj)
      IN
      \* run() is the first call made on the object, and is made once;
      \* arguments that cannot matter are not varied
      /\ last.op = "__init__"
      /\ (restart # "None" \/ runobj # "None") => given = {}
      /\ (restart # "None" \/ runobj # "None" \/ given # Mandatory) =>
             d.name = "example"
      /\ runparams' = rp
      /\ UNCHANGED methodparams
      /\ CASE setup = "setup_no_runobj" ->
                IF MissingKeys(rp) # {}
                THEN \* KeyError before the call, re-raised as HDX_Error
                     /\ last' = [call EXCEPT !.raised = "HDX_Error"]
                     /\ phase' = "Failed"
                     /\ UNCHANGED <<runvalues, mcsamplvalues, globals, files>>
                ELSE \E statenum \in Statenums(methodparams, d) :
                     /\ runvalues' = SetupRunvalues(methodparams, d,
                                                    Rand(statenum, Len(d.contacts[1])))
                     /\ mcsamplvalues' = SetupMcsamplvalues(methodparams, d, mcsamplvalues)
                     /\ files' = SetupFiles(methodparams, files, statenum)
                     /\ last' = [call EXCEPT !.setup = {setup}]
                     /\ phase' = "Initializing"
                     /\ UNCHANGED globals
           [] setup = "setup_runobj" ->
                \* setup_runobj has no body
                /\ last' = [call EXCEPT !.setup = {setup}]
                /\ phase' = "Initializing"
                /\ UNCHANGED <<runvalues, mcsamplvalues, globals, files>>
           [] setup = "setup_restart" ->
                LET res == setup_restart(rp, Checkpoint(restart), globals, files)
                IN  /\ globals' = res.globals
                    /\ files' = res.files
                    /\ last' = [call EXCEPT !.setup = {setup}, !.raised = res.raised]
                    /\ phase' = "Initializing"
                    /\ UNCHANGED <<runvalues, mcsamplvalues>>

\* ------------------------------------------------ update_lnpi_and_weights
\* lnpi = radou_bh * hbonds + radou_bc * contacts, [residue][frame].
Lnpi(bc, bh, contacts, hbonds) ==
    Tup([r \in 1..Len(contacts) |-> Tup([f \in 1..Len(contacts[r]) |->
        FAdd(FMul(bh, I(hbonds[r][f])), FMul(bc, I(contacts[r][f])))])])

\* A bias that leaves the lambdas out: the sum over residues of lnpi.
Biasfactor_m(mp, rv, mcv, lnpi) ==
    Tup([f \in 1..rv.nframes |-> FSum(Tup([r \in 1..Len(lnpi) |-> lnpi[r][f]]))])

\* The by-frame bias: the sum over residues of lambdas_c * contacts +
\* lambdas_h * hbonds in MC-sampling mode, of lambdas * lnpi otherwise.
Biasfactor(mp, rv, mcv, lnpi) ==
    Tup([f \in 1..rv.nframes |->
        IF mp.do_mcsampl
        THEN FSum(Tup([r \in 1..Len(lnpi) |->
                     FAdd(FMul(mcv.lambdas_c[r], I(rv.contacts[r][f])),
                          FMul(mcv.lambdas_h[r], I(rv.hbonds[r][f])))]))
        ELSE FSum(Tup([r \in 1..Len(lnpi) |-> FMul(rv.lambdas[r], lnpi[r][f])]))])

\* currweights = iniweights * exp(biasfactor), divided by its sum.
Currweights(iniweights, biasfactor) ==
    LET w == Tup([f \in 1..Len(iniweights) |-> FMul(iniweights[f], FExp(biasfactor[f]))])
        total == FSum(w)
    IN  Tup([f \in 1..Len(w) |-> FDiv(w[f], total)])

\* np.sum(currweights * x, axis=1) for x [residue][frame].
WeightedAve(cw, x) ==
    Tup([r \in 1..Len(x) |-> FSum(Tup([f \in 1..Len(cw) |-> FMul(cw[f], x[r][f])]))])

\* sqrt(sum(currweights * lnpi**2) - ave_lnpi**2), per residue.
SigmaLnpi(cw, lnpi, ave) ==
    Tup([r \in 1..Len(lnpi) |->
        FSqrt(FSub(FSum(Tup([f \in 1..Len(cw) |-> FMul(cw[f], FMul(lnpi[r][f], lnpi[r][f]))])),
                   FMul(ave[r], ave[r])))])

FMean(v) == FDiv(FSum(v), I(Len(v)))

\* A per-residue vector repeated over times and segments: [segment][residue][time].
Broadcast(v, ntimes, nsegs) ==
    Tup([s \in 1..nsegs |-> Tup([r \in 1..Len(v) |-> Tup([t \in 1..ntimes |-> v[r]])])])

\* The iteration on which the standard deviation of lnpi is recorded.
SigmaIter(rv) == rv.curriter = 1

\* update_lnpi_and_weights: self.runvalues afterwards and the exception raised.
update_lnpi_and_weights(mp, rp, rv, mcv) ==
    IF ~rv.def THEN [rv |-> rv, raised |-> "AttributeError"]
    ELSE
    LET lnpi == Lnpi(mp.radou_bc, mp.radou_bh, rv.contacts, rv.hbonds)
        rv1 == [rv EXCEPT !.lnpi = lnpi, !.keys = @ \cup {"lnpi"}]
    IN  IF mp.do_mcsampl /\ ~mcv.def THEN [rv |-> rv1, raised |-> "AttributeError"]
        ELSE
        LET cw == Currweights(rv.iniweights, Biasfactor(mp, rv, mcv, lnpi))
            ave == WeightedAve(cw, lnpi)
            sig == SigmaLnpi(cw, lnpi, ave)
            rv2 == [rv1 EXCEPT !.currweights = cw, !.ave_lnpi = ave,
                               !.ave_lnpi_ndim = 1,
                               !.keys = @ \cup {"currweights", "ave_lnpi"}]
            rv3 == IF SigmaIter(rv)
                   THEN [rv2 EXCEPT !.sigma_lnpi = sig, !.ave_sigma_lnpi = FMean(sig),
                                    !.keys = @ \cup {"sigma_lnpi", "ave_sigma_lnpi"}]
                   ELSE rv2
        IN  IF "times" \notin rp.keys THEN [rv |-> rv3, raised |-> "KeyError"]
            ELSE [rv |-> [rv3 EXCEPT !.ave_lnpi = Broadcast(ave, Len(rp.times), rv.n_segs),
                                     !.ave_lnpi_ndim = 3],
                  raised |-> "none"]

UpdateLnpiAndWeights ==
    LET res == update_lnpi_and_weights(methodparams, runparams, runvalues, mcsamplvalues)
    IN  /\ last.raised = "none"
        /\ runvalues' = res.rv
        /\ last' = [NoCall EXCEPT !.op = "update_lnpi_and_weights", !.raised = res.raised]
        /\ UNCHANGED <<methodparams, runparams, mcsamplvalues, globals, files, phase>>

\* ---------------------------------------------------- update_dfracs_and_mse
\* 1 - exp(minuskt_filtered / exp(denom)) where denom = ave_lnpi * segfilters
\* is not 0, NaN elsewhere.
ResidueDfracs(ave_lnpi, segfilters, minuskt_filtered) ==
    Tup([s \in 1..Len(segfilters) |-> Tup([r \in 1..Len(segfilters[s]) |->
        Tup([t \in 1..Len(segfilters[s][r]) |->
            LET denom == FMul(ave_lnpi[s][r][t], segfilters[s][r][t])
            IN  IF denom # I(0)
                THEN FSub(I(1), FExp(FDiv(minuskt_filtered[s][r][t], FExp(denom))))
                ELSE FSub(I(1), FExp(NaN))])])])

\* The entries of v[1..n] that are not NaN, in order.
RECURSIVE NotNaNTo(_, _)
NotNaNTo(v, n) ==
    IF n = 0 THEN <<>>
    ELSE IF IsNaN(v[n]) THEN NotNaNTo(v, n - 1)
    ELSE Append(NotNaNTo(v, n - 1), v[n])

\* np.nanmean: the mean of the entries that are not NaN, NaN if there is none.
NanMean(v) ==
    LET kept == NotNaNTo(v, Len(v))
    IN  IF kept = <<>> THEN NaN ELSE FDiv(FSum(kept), I(Len(kept)))

\* np.nanmean over the residue axis, repeated for every residue.
SegmentDfracs(residue_dfracs) ==
    Tup([s \in 1..Len(residue_dfracs) |-> Tup([r \in 1..Len(residue_dfracs[s]) |->
        Tup([t \in 1..Len(residue_dfracs[s][r]) |->
            NanMean(Tup([q \in 1..Len(residue_dfracs[s]) |-> residue_dfracs[s][q][t]]))])])])

\* sum((segment_dfracs * segfilters - exp_dfrac_filtered)**2) / n_datapoints.
MSE(segment_dfracs, segfilters, exp_dfrac_filtered, n_datapoints) ==
    LET dev == Tup([s \in 1..Len(segfilters) |-> Tup([r \in 1..Len(segfilters[s]) |->
                  Tup([t \in 1..Len(segfilters[s][r]) |->
                     FSub(FMul(segment_dfracs[s][r][t], segfilters[s][r][t]),
                          exp_dfrac_filtered[s][r][t])])])])
    IN  FDiv(GridSum(GridMul(dev, dev)), n_datapoints)

\* update_dfracs_and_mse: self.runvalues afterwards and the exception raised.
\* A one-dimensional ave_lnpi (left by a call of update_lnpi_and_weights that
\* raised) does not broadcast into the output array of np.divide.
update_dfracs_and_mse(rv) ==
    IF ~rv.def THEN [rv |-> rv, raised |-> "AttributeError"]
    ELSE IF "ave_lnpi" \notin rv.keys THEN [rv |-> rv, raised |-> "KeyError"]
    ELSE IF rv.ave_lnpi_ndim # 3 THEN [rv |-> rv, raised |-> "ValueError"]
    ELSE LET rd == ResidueDfracs(rv.ave_lnpi, rv.segfilters, rv.minuskt_filtered)
             sd == SegmentDfracs(rd)
         IN  [rv |-> [rv EXCEPT !.curr_residue_dfracs = rd,
                                !.curr_segment_dfracs = sd,
                                !.curr_MSE = MSE(sd, rv.segfilters,
                                                 rv.exp_dfrac_filtered, rv.n_datapoints),
                                !.keys = @ \cup {"curr_residue_dfracs",
                                                 "curr_segment_dfracs", "curr_MSE"}],
              raised |-> "none"]

UpdateDfracsAndMse ==
    LET res == update_dfracs_and_mse(runvalues)
    IN  /\ last.raised = "none"
        /\ runvalues' = res.rv
        /\ last' = [NoCall EXCEPT !.op = "update_dfracs_and_mse", !.raised = res.raised]
        /\ UNCHANGED <<methodparams, runparams, mcsamplvalues, globals, files, phase>>

\* ------------------------------------------------------ sample_parameters_MC
\* The values np.random.random_sample() returns.
UDraws == {Q(k, UGrid) : k \in 0..(UGrid - 1)}

\* The value a resampling loop of generate_trial_betas computes from draw u:
\* beta + (u - 0.5) * param_stepfactor * range.
Perturbed(beta, u, range) ==
    FAdd(beta, FMul(FMul(FSub(u, <<1, 2>>), param_stepfactor), range))

\* Draws on which the two loops of generate_trial_betas end: the first for
\* radou_bh, the second for radou_bc.
LoopEnds(bc, bh, u_c, u_h) ==
    /\ ~FLt(Perturbed(bh, u_h, radou_bhrange), I(0))
    /\ ~FLt(Perturbed(bc, u_c, radou_bcrange), I(0))

\* generate_trial_betas(bc, bh): what it returns once the loops have ended
\* on the draws u_c, u_h (the function returns its arguments).
generate_trial_betas(bc, bh, u_c, u_h) == <<bc, bh>>

\* calc_trial_ave_lnpi, before the broadcast: bc * ave_contacts + bh * ave_hbonds.
calc_trial_ave_lnpi(ave_contacts, ave_hbonds, bc, bh) ==
    Tup([r \in 1..Len(ave_contacts) |->
        FAdd(FMul(bc, ave_contacts[r]), FMul(bh, ave_hbonds[r]))])

IntGrid(x) == Tup([r \in 1..Len(x) |-> Tup([f \in 1..Len(x[r]) |-> I(x[r][f])])])

\* n_segs * len(times) * MSE / (2.0 * mc_refvar).
AccVal(n_segs, n_times, mse) ==
    FDiv(FMul(I(n_segs * n_times), mse), FMul(I(2), mc_refvar))

\* move_prob = exp(-(trial_acc_val - orig_acc_val)).
MoveProb(n_segs, n_times, trial_MSE, curr_MSE) ==
    FExp(FNeg(FSub(AccVal(n_segs, n_times, trial_MSE),
                   AccVal(n_segs, n_times, curr_MSE))))

\* An acceptance test with the comparison of the else branch turned round.
Accepts_m(n_segs, n_times, trial_MSE, curr_MSE, r) ==
    \/ FLt(trial_MSE, curr_MSE)
    \/ FLt(MoveProb(n_segs, n_times, trial_MSE, curr_MSE), r)

\* The acceptance test of one inner step, r being the draw of its else branch.
Accepts(n_segs, n_times, trial_MSE, curr_MSE, r) ==
    \/ FLt(trial_MSE, curr_MSE)
    \/ FLt(r, MoveProb(n_segs, n_times, trial_MSE, curr_MSE))

\* The exception that ends the first inner step after the acceptance test:
\* calc_lambdas_in_sampleloop reads the module global segfilters, and the
\* adding_function closures assign to the totals of their enclosing function.
StepRaises(mp, g) ==
    IF mp.do_reweight /\ g["segfilters"] = Unbound THEN "NameError"
    ELSE "UnboundLocalError"

\* sample_parameters_MC up to the sampling loop: the exception raised there
\* ("none" if the loop is entered), self.mcsamplvalues with the saved
\* original values, and the weighted-average contacts and H-bonds.
SamplerEntry(rv, mcv) ==
    LET fail(e) == [raised |-> e, mcv |-> mcv, ave_contacts |-> <<>>, ave_hbonds |-> <<>>]
    IN  IF ~rv.def THEN fail("AttributeError")
        ELSE IF "currweights" \notin rv.keys \/ "curr_MSE" \notin rv.keys
        THEN fail("KeyError")
        ELSE IF ~mcv.def THEN fail("AttributeError")
        ELSE [raised |-> "none",
              mcv |-> [mcv EXCEPT !.MC_MSE_ave = rv.curr_MSE,
                                  !.MC_resfracs_ave = rv.curr_residue_dfracs],
              ave_contacts |-> WeightedAve(rv.currweights, IntGrid(rv.contacts)),
              ave_hbonds |-> WeightedAve(rv.currweights, IntGrid(rv.hbonds))]

\* Step 1 of an inner step: the trial betas for the draws u_c, u_h and the
\* trial ave_lnpi, deuterated fractions and MSE computed from them.
TrialStep(mp, rp, rv, entry, u_c, u_h) ==
    LET trial == generate_trial_betas(mp.radou_bc, mp.radou_bh, u_c, u_h)
        trial_ave_lnpi == Broadcast(calc_trial_ave_lnpi(entry.ave_contacts,
                                                        entry.ave_hbonds,
                                                        trial[1], trial[2]),
                                    Len(rp.times), rv.n_segs)
        trial_rd == ResidueDfracs(trial_ave_lnpi, rv.segfilters, rv.minuskt_filtered)
        trial_sd == SegmentDfracs(trial_rd)
    IN  [bc |-> trial[1], bh |-> trial[2], ave_lnpi |-> trial_ave_lnpi,
         residue_dfracs |-> trial_rd, segment_dfracs |-> trial_sd,
         MSE |-> MSE(trial_sd, rv.segfilters, rv.exp_dfrac_filtered, rv.n_datapoints)]

\* An inner step that goes back to the initial frame weights when it accepts.
AcceptStep_w(rp, rv, trial, r) ==
    IF Accepts(rv.n_segs, Len(rp.times), trial.MSE, rv.curr_MSE, r)
    THEN [rv EXCEPT !.curr_MSE = trial.MSE,
                    !.ave_lnpi = trial.ave_lnpi,
                    !.ave_lnpi_ndim = 3,
                    !.curr_segment_dfracs = trial.segment_dfracs,
                    !.curr_residue_dfracs = trial.residue_dfracs,
                    !.currweights = rv.iniweights]
    ELSE rv

\* An inner step that replaces curr_MSE alone when it accepts.
AcceptStep_m(rp, rv, trial, r) ==
    IF Accepts(rv.n_segs, Len(rp.times), trial.MSE, rv.curr_MSE, r)
    THEN [rv EXCEPT !.curr_MSE = trial.MSE]
    ELSE rv

\* The acceptance test and replacement of an inner step: self.runvalues
\* afterwards.
AcceptStep(rp, rv, trial, r) ==
    IF Accepts(rv.n_segs, Len(rp.times), trial.MSE, rv.curr_MSE, r)
    THEN [rv EXCEPT !.curr_MSE = trial.MSE,
                    !.ave_lnpi = trial.ave_lnpi,
                    !.ave_lnpi_ndim = 3,
                    !.curr_segment_dfracs = trial.segment_dfracs,
                    !.curr_residue_dfracs = trial.residue_dfracs]
    ELSE rv

\* The local values of the call, as left when the first inner step raises.
StepLocals(mp, rp, rv, trial, u_c, u_h, r) ==
    LET tested == ~FLt(trial.MSE, rv.curr_MSE)
        accepted == Accepts(rv.n_segs, Len(rp.times), trial.MSE, rv.curr_MSE, r)
    IN  [NoMC EXCEPT !.curr_bc = mp.radou_bc, !.curr_bh = mp.radou_bh,
                     !.new_bc = IF accepted THEN trial.bc ELSE mp.radou_bc,
                     !.new_bh = IF accepted THEN trial.bh ELSE mp.radou_bh,
                     !.prev = [ave_lnpi |-> rv.ave_lnpi,
                               segment_dfracs |-> rv.curr_segment_dfracs,
                               residue_dfracs |-> rv.curr_residue_dfracs],
                     !.trial = [ave_lnpi |-> trial.ave_lnpi,
                                segment_dfracs |-> trial.segment_dfracs,
                                residue_dfracs |-> trial.residue_dfracs],
                     !.u_c = u_c, !.u_h = u_h,
                     !.trial_bc = trial.bc, !.trial_bh = trial.bh,
                     !.prev_MSE = rv.curr_MSE, !.trial_MSE = trial.MSE,
                     !.tested = tested,
                     !.r = IF tested THEN r ELSE <<>>,
                     !.move_prob = IF tested
                                   THEN MoveProb(rv.n_segs, Len(rp.times),
                                                 trial.MSE, rv.curr_MSE)
                                   ELSE <<>>,
                     !.accepted = accepted]

\* Whether some draws end the resampling loops (otherwise the call never returns).
CanPropose(mp) ==
    \E u_c \in UDraws, u_h \in UDraws : LoopEnds(mp.radou_bc, mp.radou_bh, u_c, u_h)

\* The draws of one inner step: u_h and u_c that end the loops of
\* generate_trial_betas, and r, drawn only when the trial is not better.
\* All are np.random.random_sample() calls on the global generator.
StepDraws(mp, rp, rv, entry) ==
    UNION { LET trial == TrialStep(mp, rp, rv, entry, u[1], u[2])
            IN  { <<u[1], u[2], r>> :
                    r \in IF FLt(trial.MSE, rv.curr_MSE) THEN {I(0)} ELSE UDraws }
            : u \in {v \in UDraws \X UDraws : LoopEnds(mp.radou_bc, mp.radou_bh, v[1], v[2])} }

\* sample_parameters_MC.  The call ends in its first inner step: the loop
\* body raises after the acceptance test (StepRaises).
SampleParametersMC ==
    LET call == [NoCall EXCEPT !.op = "sample_parameters_MC"]
    IN  /\ last.raised = "none"
        /\ UNCHANGED <<methodparams, runparams, globals, files, phase>>
        /\ \E entry \in {SamplerEntry(runvalues, mcsamplvalues)} :
           IF entry.raised # "none"
           THEN \* raised before the sampling loop
                /\ runvalues' = runvalues
                /\ mcsamplvalues' = entry.mcv
                /\ last' = [call EXCEPT !.raised = entry.raised]
           ELSE IF "times" \notin runparams.keys
           THEN \* calc_trial_ave_lnpi reads self.runparams['times']
                /\ runvalues' = runvalues
                /\ mcsamplvalues' = entry.mcv
                /\ last' = [call EXCEPT !.raised = "KeyError"]
           ELSE IF ~CanPropose(methodparams)
           THEN \* a resampling loop never ends
                /\ runvalues' = runvalues
                /\ mcsamplvalues' = entry.mcv
                /\ last' = [call EXCEPT !.raised = "NoReturn"]
           ELSE \E draws \in StepDraws(methodparams, runparams, runvalues, entry) :
                \E trial \in {TrialStep(methodparams, runparams, runvalues,
                                        entry, draws[1], draws[2])} :
                  /\ runvalues' = AcceptStep(runparams, runvalues, trial, draws[3])
                  /\ mcsamplvalues' = entry.mcv
                  /\ last' = [call EXCEPT
                                 !.raised = StepRaises(methodparams, globals),
                                 !.mc = StepLocals(methodparams, runparams, runvalues,
                                                   trial, draws[1], draws[2], draws[3])]

\* ------------------------------------- sample_parameters_MC, after the loop
\* np.ndarray / x, and the sum and product of arrays, elementwise.
GridDiv(g, x) ==
    Tup([s \in 1..Len(g) |-> Tup([r \in 1..Len(g[s]) |-> Tup([t \in 1..Len(g[s][r]) |->
        FDiv(g[s][r][t], x)])])])

GridAdd(g, h) ==
    Tup([s \in 1..Len(g) |-> Tup([r \in 1..Len(g[s]) |-> Tup([t \in 1..Len(g[s][r]) |->
        FAdd(g[s][r][t], h[s][r][t])])])])

GridScale(g, x) ==
    Tup([s \in 1..Len(g) |-> Tup([r \in 1..Len(g[s]) |-> Tup([t \in 1..Len(g[s][r]) |->
        FMul(g[s][r][t], x)])])])

\* smoothing_rate: mc_equilsteps / sqrt(mc_equilsteps * (mc_equilsteps +
\* curriter)) during equilibration, 1.0 when it is switched off.
smoothing_rate(mp, rv) ==
    IF mp.mc_equilsteps > 0
    THEN FDiv(I(mp.mc_equilsteps),
              FSqrt(I(mp.mc_equilsteps * (mp.mc_equilsteps + rv.curriter))))
    ELSE I(1)

\* update_sampled_averages_nolambda: the totals divided by param_maxiters.
update_sampled_averages_nolambda(mp, sums) ==
    [bc |-> FDiv(sums.bc, I(mp.param_maxiters)),
     bh |-> FDiv(sums.bh, I(mp.param_maxiters)),
     mse |-> FDiv(sums.mse, I(mp.param_maxiters)),
     resfracs |-> GridDiv(sums.resfracs, I(mp.param_maxiters))]

\* One of the final updates: old * (1.0 - smoothing_rate) +
\* smoothing_rate * (ave / param_maxiters).
Smoothed(old, ave, rate, maxiters) ==
    FAdd(FMul(old, FSub(I(1), rate)), FMul(rate, FDiv(ave, I(maxiters))))

\* The same update of the residue-fraction array.
SmoothedGrid(old, ave, rate, maxiters) ==
    GridAdd(GridScale(old, FSub(I(1), rate)),
            GridScale(GridDiv(ave, I(maxiters)), rate))

\* The statements of sample_parameters_MC that follow the sampling loop, in
\* the variant without reweighting: the averages of the totals the loop
\* left, then the update of radou_bh, radou_bc, MC_MSE_ave, MC_resfracs_ave.
AverageSampled ==
    /\ last.op = "sample_parameters_MC"
    /\ last.raised = "none"
    /\ last.mc.steps = methodparams.param_maxiters
    /\ ~methodparams.do_reweight
    /\ LET ave == update_sampled_averages_nolambda(methodparams, last.mc.sums)
           rate == smoothing_rate(methodparams, runvalues)
           n == methodparams.param_maxiters
       IN  /\ methodparams' =
                  [methodparams EXCEPT
                      !.radou_bh = Smoothed(@, ave.bh, rate, n),
                      !.radou_bc = Smoothed(@, ave.bc, rate, n)]
           /\ mcsamplvalues' =
                  [mcsamplvalues EXCEPT
                      !.MC_MSE_ave = Smoothed(@, ave.mse, rate, n),
                      !.MC_resfracs_ave = SmoothedGrid(@, ave.resfracs, rate, n)]
    /\ last' = [last EXCEPT !.op = "sample_parameters_MC returned"]
    /\ UNCHANGED <<runparams, runvalues, globals, files, phase>>

\* ------------------------------------------------------------ engine step
\* The lambda update of one engine iteration (the loop that calls the
\* methods above is not part of reweighting.py): the lambdas, and the channel
\* lambdas in MC-sampling mode, move to new values and the iteration counter
\* advances.
LambdaStep ==
    \E k \in (-MaxLambda)..MaxLambda :
      /\ last.raised = "none"
      /\ runvalues.def
      /\ runvalues.curriter < MaxIter
      /\ runvalues' = [runvalues EXCEPT
                          !.lambdas = Tup([r \in 1..Len(@) |-> I(k)]),
                          !.curriter = @ + 1]
      /\ mcsamplvalues' = IF methodparams.do_mcsampl /\ mcsamplvalues.def
                          THEN [mcsamplvalues EXCEPT
                                   !.lambdas_c = Tup([r \in 1..Len(@) |-> I(k)]),
                                   !.lambdas_h = Tup([r \in 1..Len(@) |-> I(k)])]
                          ELSE mcsamplvalues
      /\ last' = [NoCall EXCEPT !.op = "lambda_step"]
      /\ UNCHANGED <<methodparams, runparams, globals, files, phase>>

Next ==
    \/ Run
    \/ UpdateLnpiAndWeights
    \/ UpdateDfracsAndMse
    \/ SampleParametersMC
    \/ LambdaStep

Spec == Init /\ [][Next]_vars

\* ------------------------------------------- the averages after the loop
\* The first inner step of the sampling loop raises, so the statements after
\* the loop are checked on their own, from the states a loop of
\* param_maxiters steps is to leave: the totals of a call whose steps had
\* the current coefficients mean_bc and mean_bh on average and kept the
\* current MSE and residue fractions.
MeanGrid == {Q(k, 4) : k \in 0..MaxMean}

LoopTotals(n, mean_bc, mean_bh, rv) ==
    [bc |-> FMul(I(n), mean_bc), bh |-> FMul(I(n), mean_bh),
     mse |-> FMul(I(n), rv.curr_MSE),
     resfracs |-> GridScale(rv.curr_residue_dfracs, I(n))]

AveragesInit ==
    \E n \in 1..MaxSteps, mean_bc \in MeanGrid, mean_bh \in MeanGrid,
       eq \in {default_mc_equilsteps, 1}, it \in {0, 3},
       d \in {x \in Datasets : x.name = "example"} :
      LET mp == [Defaults EXCEPT !.do_mcsampl = TRUE, !.do_reweight = FALSE,
                                 !.param_maxiters = n, !.mc_equilsteps = eq,
                                 !.radou_bc = mean_bc, !.radou_bh = mean_bh]
          rp == set_run_params(gamma_default, "None", "None",
                               [given |-> Mandatory, data |-> d])
          rv0 == SetupRunvalues(mp, d, <<0, 0>>)
          mcv0 == SetupMcsamplvalues(mp, d, NoMcsamplvalues)
          rv1 == update_lnpi_and_weights(mp, rp, rv0, mcv0).rv
          rv2 == [update_dfracs_and_mse(rv1).rv EXCEPT !.curriter = it]
      IN  /\ methodparams = mp
          /\ runparams = rp
          /\ runvalues = rv2
          /\ mcsamplvalues = SamplerEntry(rv2, mcv0).mcv
          /\ globals = [g \in FieldSet |-> Unbound]
          /\ files = SetupFiles(mp, [f \in OutFiles |-> <<>>], 0)
          /\ phase = "Initializing"
          /\ last = [NoCall EXCEPT
                        !.op = "sample_parameters_MC",
                        !.mc = [NoMC EXCEPT
                                   !.steps = n,
                                   !.curr_bc = mean_bc, !.curr_bh = mean_bh,
                                   !.sums = LoopTotals(n, mean_bc, mean_bh, rv2)]]

AveragesSpec == AveragesInit /\ [][AverageSampled]_vars

\* ----------------------------------------------------------------- claims
\* The setup routine the priority restart > runobj > fresh names for the
\* arguments of the last call.
ByPriority ==
    IF last.restart # "None" THEN "setup_restart"
    ELSE IF last.runobj # "None" THEN "setup_runobj"
    ELSE "setup_no_runobj"

FreshCall == last.op = "run" /\ last.restart = "None" /\ last.runobj = "None"

\* A sample_parameters_MC call that got as far as an inner step.
SteppedCall == last.op = "sample_parameters_MC" /\ last.mc.u_c # <<>>

\* C1, as stated: every run() call enters exactly one setup routine, the one
\* the priority restart > runobj > fresh names.
C1_ExactlyOneSetup ==
    last.op = "run" => last.setup = {ByPriority}

\* C1, amended: a run() call enters at most one setup routine, and only the
\* one the priority restart > runobj > fresh names; it enters none exactly
\* when, on the fresh path, a mandatory argument is missing (the lookup fails
\* before setup_no_runobj is called).
C1_SetupByPriority ==
    last.op = "run" =>
        /\ last.setup \subseteq {ByPriority}
        /\ (last.setup = {}) <=> (FreshCall /\ last.given # Mandatory)

\* run() was given both a restart file and a run object and entered
\* setup_restart.
C1_Witness ==
    /\ last.op = "run"
    /\ last.restart = "valid"
    /\ last.runobj = "calc_hdx"
    /\ last.setup = {"setup_restart"}

\* C2: on the fresh path with data_folders, kint_file, exp_file or times
\* missing, run() raises HDX_Error having entered no setup routine, created
\* no runvalues or mcsamplvalues, assigned no global and written no file.
C2_MissingParamsFailFast ==
    (FreshCall /\ last.given # Mandatory) =>
        /\ last.raised = "HDX_Error"
        /\ phase = "Failed"
        /\ last.setup = {}
        /\ ~runvalues.def
        /\ ~mcsamplvalues.def
        /\ \A f \in OutFiles : files[f] = <<>>
        /\ \A n \in FieldSet : globals[n] = Unbound

\* run() was called on the fresh path without the list of times and raised
\* HDX_Error.
C2_Witness ==
    /\ FreshCall
    /\ last.given = Mandatory \ {"times"}
    /\ last.raised = "HDX_Error"

\* C3, as stated: run() fails only because a mandatory argument is missing
\* on the fresh path; with all four given, or with a run object or a
\* well-formed restart file, setup completes without raising.
C3_FailedOnlyOnMissingConfig ==
    (last.op = "run" /\ last.restart \in {"None", "valid"}) =>
        /\ (last.raised # "none") <=> (FreshCall /\ last.given # Mandatory)
        /\ last.raised \in {"none", "HDX_Error"}
        /\ (phase = "Failed") <=> (last.raised = "HDX_Error")

\* C4, as stated: a run() whose setup succeeded does not return in
\* Initializing; it returns Converged or MaxItersReached.
C4_RunReachesTerminalOutcome ==
    (last.op = "run" /\ last.raised = "none") =>
        phase \in {"Converged", "MaxItersReached"}

\* C5, as stated: after run(restart=<checkpoint written in order>) the
\* saved lambdas, weights, Bc, Bh and iteration counter are in runvalues,
\* mcsamplvalues and methodparams, where update_lnpi_and_weights reads them.
C5_RestartRestoresState ==
    (last.op = "run" /\ last.restart = "valid") =>
        /\ last.raised = "none"
        /\ runvalues.def
        /\ runvalues.lambdas = SavedVal("lambdas")
        /\ runvalues.iniweights = SavedVal("iniweights")
        /\ runvalues.curriter = SavedVal("currcount")[1]
        /\ mcsamplvalues.def
        /\ mcsamplvalues.lambdas_c = SavedVal("lambdasc")
        /\ mcsamplvalues.lambdas_h = SavedVal("lambdash")
        /\ methodparams.radou_bc = SavedVal("Bc")
        /\ methodparams.radou_bh = SavedVal("Bh")

\* C6, as stated: after run(restart=<checkpoint with a field missing, or
\* with fields in another order>) the call has raised, no restored variable
\* is assigned and no file is appended to; no variable ever holds the value
\* of another field.
C6_MismatchedCheckpointRejected ==
    /\ (last.op = "run" /\ last.restart \in {"short", "reordered"}) =>
          /\ last.raised # "none"
          /\ \A n \in FieldSet : globals[n] = Unbound
          /\ \A f \in OutFiles : files[f] = <<>>
    /\ \A n \in FieldSet : globals[n] # Unbound => globals[n].field = n

\* C7, as stated: once update_lnpi_and_weights has stored currweights, every
\* entry is a number >= 0 and the entries sum to 1.
C7_WeightsNormalised ==
    "currweights" \in runvalues.keys =>
        /\ \A f \in 1..Len(runvalues.currweights) :
              /\ IsFinite(runvalues.currweights[f])
              /\ FGe(runvalues.currweights[f], I(0))
        /\ FSum(runvalues.currweights) = I(1)

\* C8, as stated: radou_bc and radou_bh in methodparams are never negative,
\* and neither value of a pair generate_trial_betas returned is.
C8_BetasNeverNegative ==
    /\ FGe(methodparams.radou_bc, I(0))
    /\ FGe(methodparams.radou_bh, I(0))
    /\ SteppedCall => /\ FGe(last.mc.trial_bc, I(0))
                      /\ FGe(last.mc.trial_bh, I(0))

\* C9, as stated: the trial coefficients of an inner step are the current
\* ones moved by (u - 0.5) * param_stepfactor * range, Bc with radou_bcrange
\* and Bh with radou_bhrange.
C9_TrialIsPerturbed ==
    SteppedCall =>
        /\ last.mc.trial_bc =
              FAdd(last.mc.curr_bc,
                   FMul(FMul(FSub(last.mc.u_c, <<1, 2>>), <<1, 10>>), <<3, 2>>))
        /\ last.mc.trial_bh =
              FAdd(last.mc.curr_bh,
                   FMul(FMul(FSub(last.mc.u_h, <<1, 2>>), <<1, 10>>), <<16, 1>>))

\* The MSE values the acceptance probability is compared over.
MSEGrid == {Q(k, 60) : k \in 0..6}

\* C10: an inner step accepts the trial when trial_MSE < curr_MSE, and
\* otherwise exactly when its draw r is below exp(-(trialVal - currVal)),
\* val = n_segs * n_times * MSE / (2 * mc_refvar); accepting replaces
\* curr_MSE by trial_MSE and rejecting keeps it; a trial whose MSE equals the
\* current one is accepted; the probability does not grow with trial_MSE; and
\* with mc_refvar 0.03 and one segment and time, 0.05 against 0.02 gives
\* exp(-0.5).
C10_AcceptanceRule ==
    /\ SteppedCall =>
          LET n == runvalues.n_segs * Len(runparams.times)
              val(mse) == FDiv(FMul(I(n), mse), FMul(I(2), <<3, 100>>))
              prob(mse) == FExp(FNeg(FSub(val(mse), val(last.mc.prev_MSE))))
              trial == last.mc.trial_MSE
              prev == last.mc.prev_MSE
          IN  /\ last.mc.tested <=> ~FLt(trial, prev)
              /\ last.mc.tested => last.mc.move_prob = prob(trial)
              /\ last.mc.accepted <=>
                    (FLt(trial, prev) \/ (last.mc.tested /\ FLt(last.mc.r, prob(trial))))
              /\ runvalues.curr_MSE = IF last.mc.accepted THEN trial ELSE prev
              /\ (trial = prev /\ ~IsNaN(trial)) => last.mc.accepted
              /\ \A m \in MSEGrid :
                    (last.mc.tested /\ FGe(m, trial)) =>
                        ~FLt(last.mc.move_prob,
                             MoveProb(runvalues.n_segs, Len(runparams.times), m, prev))
    /\ FSub(AccVal(1, 1, <<1, 20>>), AccVal(1, 1, <<1, 50>>)) = <<1, 2>>
    /\ MoveProb(1, 1, <<1, 20>>, <<1, 50>>) = FExp(<<-1, 2>>)

\* An inner step whose trial MSE was above the current one went to the
\* probabilistic test and was accepted on its draw.
C10_Witness ==
    /\ SteppedCall
    /\ last.mc.tested
    /\ FLt(last.mc.prev_MSE, last.mc.trial_MSE)
    /\ last.mc.accepted
    /\ runvalues.curr_MSE = last.mc.trial_MSE

\* C10, the other cases reached: a worse trial rejected on its draw,
C10_WitnessRejected ==
    /\ SteppedCall
    /\ last.mc.tested
    /\ FLt(last.mc.prev_MSE, last.mc.trial_MSE)
    /\ ~IsNaN(last.mc.move_prob)
    /\ ~last.mc.accepted

\* a better trial accepted without a draw,
C10_WitnessImproved ==
    /\ SteppedCall
    /\ ~last.mc.tested
    /\ last.mc.accepted

\* and a trial with the current MSE, accepted on every draw.
C10_WitnessEqual ==
    /\ SteppedCall
    /\ last.mc.trial_MSE = last.mc.prev_MSE
    /\ ~IsNaN(last.mc.trial_MSE)
    /\ last.mc.r = Q(UGrid - 1, UGrid)

\* A call whose loop has ended and whose final updates are done.
Returned == last.op = "sample_parameters_MC returned"

RecordedSeed == files["initial_params.dat"][3][2]

\* The state allows sample_parameters_MC to reach its first inner step.
SamplerSteps ==
    /\ last.raised = "none"
    /\ SamplerEntry(runvalues, mcsamplvalues).raised = "none"
    /\ "times" \in runparams.keys
    /\ CanPropose(methodparams)

\* What a run observes of an inner step made with the draws d: whether the
\* trial was accepted, and self.runvalues afterwards.
StepOutcome(d) ==
    LET entry == SamplerEntry(runvalues, mcsamplvalues)
        trial == TrialStep(methodparams, runparams, runvalues, entry, d[1], d[2])
    IN  [accepted |-> Accepts(runvalues.n_segs, Len(runparams.times), trial.MSE,
                              runvalues.curr_MSE, d[3]),
         runvalues |-> AcceptStep(runparams, runvalues, trial, d[3])]

\* C12: the random draws of a run are fixed by the seed its output records:
\* the random initial weights are those the generator gives for the seed in
\* initial_params.dat, and from one state (same inputs, same files, same
\* recorded seed) an inner step of sample_parameters_MC has one outcome,
\* the same trial accepted or rejected and the same values afterwards.
C12_Replayable ==
    /\ (runvalues.def /\ methodparams.random_initial) =>
           runvalues.iniweights =
               Tup([f \in 1..runvalues.nframes |->
                      Q(Rand(RecordedSeed, runvalues.nframes)[f], WGrid)])
    /\ SamplerSteps =>
           Cardinality({StepOutcome(d) :
                          d \in StepDraws(methodparams, runparams, runvalues,
                                          SamplerEntry(runvalues, mcsamplvalues))}) = 1

\* The lambdas update_lnpi_and_weights reads are all zero: lambdas_c and
\* lambdas_h in MC-sampling mode, lambdas otherwise.
ZeroLambdas ==
    IF methodparams.do_mcsampl
    THEN /\ mcsamplvalues.def
         /\ \A r \in 1..Len(mcsamplvalues.lambdas_c) :
               mcsamplvalues.lambdas_c[r] = I(0) /\ mcsamplvalues.lambdas_h[r] = I(0)
    ELSE \A r \in 1..Len(runvalues.lambdas) : runvalues.lambdas[r] = I(0)

Updated == last.op = "update_lnpi_and_weights" /\ last.raised = "none"

\* C13: after update_lnpi_and_weights with all lambdas zero, currweights is
\* iniweights divided by their sum, whatever the contacts, H-bonds, Bc and
\* Bh, and sums to 1 (for initial weights that do not sum to zero); with
\* equal initial weights every one of the N frames has weight 1/N.
C13_ZeroLambdasKeepIniweights ==
    (Updated /\ ZeroLambdas) =>
        LET total == FSum(runvalues.iniweights)
        IN  /\ \A f \in 1..runvalues.nframes :
                  runvalues.currweights[f] = FDiv(runvalues.iniweights[f], total)
            /\ total # I(0) => FSum(runvalues.currweights) = I(1)
            /\ ~methodparams.random_initial =>
                  \A f \in 1..runvalues.nframes :
                      runvalues.currweights[f] = Q(1, runvalues.nframes)

\* C13 witness: the two equally weighted frames of the example, with Bc and
\* Bh at values that give the frames different lnpi, both at weight 0.5.
C13_Witness ==
    /\ Updated
    /\ ZeroLambdas
    /\ runvalues.iniweights = <<I(1), I(1)>>
    /\ runvalues.lnpi[2][1] # runvalues.lnpi[2][2]
    /\ runvalues.currweights = <<Q(1, 2), Q(1, 2)>>

\* C13 witness: random initial weights that differ, normalised.
C13_WitnessRandom ==
    /\ Updated
    /\ ZeroLambdas
    /\ runvalues.iniweights = <<I(0), Q(1, WGrid)>>
    /\ runvalues.currweights = <<I(0), I(1)>>

\* The loop of a sample_parameters_MC call was entered with coefficients
\* that are not negative.
LoopEntered ==
    /\ last.op = "sample_parameters_MC"
    /\ last.raised \notin {"AttributeError", "KeyError"}
    /\ FGe(methodparams.radou_bc, I(0))
    /\ FGe(methodparams.radou_bh, I(0))

\* C14: a sample_parameters_MC call with non-negative Bc and Bh ends its
\* resampling loops and returns without raising after param_maxiters inner
\* steps, each of which added its values to the running sums.
C14_SamplerReturns ==
    LoopEntered =>
        /\ last.mc.u_c # <<>>
        /\ last.raised = "none"
        /\ last.mc.steps = methodparams.param_maxiters
        /\ last.mc.sums # <<>>

\* The current tuple of a call after the acceptance test of its inner step.
CurrentTuple ==
    [bc |-> last.mc.new_bc, bh |-> last.mc.new_bh,
     MSE |-> runvalues.curr_MSE, ave_lnpi |-> runvalues.ave_lnpi,
     segment_dfracs |-> runvalues.curr_segment_dfracs,
     residue_dfracs |-> runvalues.curr_residue_dfracs]

\* The trial tuple of the step, and the current tuple before the test.
TrialTuple ==
    [bc |-> last.mc.trial_bc, bh |-> last.mc.trial_bh,
     MSE |-> last.mc.trial_MSE, ave_lnpi |-> last.mc.trial.ave_lnpi,
     segment_dfracs |-> last.mc.trial.segment_dfracs,
     residue_dfracs |-> last.mc.trial.residue_dfracs]

PreviousTuple ==
    [bc |-> last.mc.curr_bc, bh |-> last.mc.curr_bh,
     MSE |-> last.mc.prev_MSE, ave_lnpi |-> last.mc.prev.ave_lnpi,
     segment_dfracs |-> last.mc.prev.segment_dfracs,
     residue_dfracs |-> last.mc.prev.residue_dfracs]

\* The tuple t holds the ave_lnpi, deuterated fractions and MSE computed
\* from its pair (bc, bh) with the weighted-average contacts and H-bonds of
\* the call.
FromItsPair(t) ==
    LET ave == Broadcast(
                   calc_trial_ave_lnpi(
                       WeightedAve(runvalues.currweights, IntGrid(runvalues.contacts)),
                       WeightedAve(runvalues.currweights, IntGrid(runvalues.hbonds)),
                       t.bc, t.bh),
                   Len(runparams.times), runvalues.n_segs)
        rd == ResidueDfracs(ave, runvalues.segfilters, runvalues.minuskt_filtered)
        sd == SegmentDfracs(rd)
    IN  /\ t.ave_lnpi = ave
        /\ t.residue_dfracs = rd
        /\ t.segment_dfracs = sd
        /\ t.MSE = MSE(sd, runvalues.segfilters, runvalues.exp_dfrac_filtered,
                       runvalues.n_datapoints)

\* C15: after the acceptance test of an inner step the current tuple (Bc,
\* Bh, curr_MSE, ave_lnpi, segment and residue fractions) is the trial tuple
\* if the trial was accepted and the tuple from before the test if it was
\* rejected, never a mix; an accepted tuple is the one computed from its
\* (Bc, Bh), and a rejection keeps a tuple that was.
C15_TupleReplacedAsAWhole ==
    SteppedCall =>
        /\ CurrentTuple = IF last.mc.accepted THEN TrialTuple ELSE PreviousTuple
        /\ last.mc.accepted => FromItsPair(CurrentTuple)
        /\ FromItsPair(PreviousTuple) => FromItsPair(CurrentTuple)

\* C15 witness: an accepted trial whose MSE and fractions differ from the
\* previous ones.
C15_Witness ==
    /\ SteppedCall
    /\ last.mc.accepted
    /\ last.mc.trial_MSE # last.mc.prev_MSE
    /\ last.mc.trial.residue_dfracs # last.mc.prev.residue_dfracs
    /\ runvalues.curr_MSE = last.mc.trial_MSE

\* C15 witness: a rejected trial that differed from the previous values.
C15_WitnessRejected ==
    /\ SteppedCall
    /\ ~last.mc.accepted
    /\ last.mc.trial_MSE # last.mc.prev_MSE
    /\ runvalues.curr_MSE = last.mc.prev_MSE

\* The entries of self.runvalues the sampler only reads.
SamplerInputs(rv) ==
    <<rv.currweights, rv.iniweights, rv.contacts, rv.hbonds,
      rv.minuskt_filtered, rv.exp_dfrac_filtered, rv.segfilters,
      WeightedAve(rv.currweights, IntGrid(rv.contacts)),
      WeightedAve(rv.currweights, IntGrid(rv.hbonds))>>

\* C16: a step of sample_parameters_MC leaves currweights, iniweights,
\* contacts, hbonds, minuskt_filtered, exp_dfrac_filtered, segfilters and
\* the weighted-average contacts and H-bonds as they were, and no call made
\* after setup (update_lnpi_and_weights, update_dfracs_and_mse,
\* sample_parameters_MC) changes segfilters.
C16_SamplerDoesNotReweight ==
    [][ /\ (last'.op = "sample_parameters_MC" /\ runvalues.def) =>
               SamplerInputs(runvalues') = SamplerInputs(runvalues)
        /\ runvalues.def => runvalues'.segfilters = runvalues.segfilters ]_vars

\* C16 witness: an inner step that accepted a trial and replaced the
\* deuterated fractions, with the frame weights of the call in place.
C16_Witness ==
    /\ SteppedCall
    /\ last.mc.accepted
    /\ runvalues.curr_residue_dfracs # last.mc.prev.residue_dfracs
    /\ runvalues.iniweights = <<I(1), I(1)>>
    /\ runvalues.currweights[1] # runvalues.currweights[2]
    /\ IsFinite(runvalues.currweights[1])

\* update_dfracs_and_mse was the last call, made on an ave_lnpi that
\* update_lnpi_and_weights left complete and finite.
DfracsCall ==
    /\ last.op = "update_dfracs_and_mse"
    /\ runvalues.def
    /\ "ave_lnpi" \in runvalues.keys
    /\ runvalues.ave_lnpi_ndim = 3
    /\ \A s \in 1..Len(runvalues.ave_lnpi) : \A r \in 1..Len(runvalues.ave_lnpi[s]) :
          \A t \in 1..Len(runvalues.ave_lnpi[s][r]) : IsFinite(runvalues.ave_lnpi[s][r][t])

\* ave_lnpi moved by 1 at the cells the segment filter leaves out.
MovedWhereFiltered(ave_lnpi, segfilters) ==
    Tup([s \in 1..Len(ave_lnpi) |-> Tup([r \in 1..Len(ave_lnpi[s]) |->
        Tup([t \in 1..Len(ave_lnpi[s][r]) |->
            IF segfilters[s][r][t] = I(0)
            THEN FAdd(ave_lnpi[s][r][t], I(1))
            ELSE ave_lnpi[s][r][t]])])])

\* C17: update_dfracs_and_mse does not raise; an entry of
\* curr_residue_dfracs is undefined (NaN) exactly when its segment filter is
\* false; curr_MSE is a defined number, also with a segment no residue
\* belongs to or an unfiltered residue whose ave_lnpi is 0; and curr_MSE
\* does not depend on ave_lnpi at the filtered-out cells.
C17_UndefinedIffFilteredOut ==
    DfracsCall =>
        /\ last.raised = "none"
        /\ \A s \in 1..Len(runvalues.segfilters) :
              \A r \in 1..Len(runvalues.segfilters[s]) :
                \A t \in 1..Len(runvalues.segfilters[s][r]) :
                    IsNaN(runvalues.curr_residue_dfracs[s][r][t])
                        <=> (runvalues.segfilters[s][r][t] = I(0))
        /\ ~IsNaN(runvalues.curr_MSE)
        /\ runvalues.curr_MSE =
               MSE(SegmentDfracs(ResidueDfracs(
                       MovedWhereFiltered(runvalues.ave_lnpi, runvalues.segfilters),
                       runvalues.segfilters, runvalues.minuskt_filtered)),
                   runvalues.segfilters, runvalues.exp_dfrac_filtered,
                   runvalues.n_datapoints)

\* C18: sigma_lnpi and ave_sigma_lnpi are recorded by the first call of
\* update_lnpi_and_weights after setup (made with curriter = 0), so they are
\* defined after every call of it that returns, and whenever
\* sample_parameters_MC has entered its loop.
C18_SigmaRecordedOnFirstCall ==
    /\ Updated => {"sigma_lnpi", "ave_sigma_lnpi"} \subseteq runvalues.keys
    /\ SteppedCall => "ave_sigma_lnpi" \in runvalues.keys

====
